---------------------------- MODULE Spec2Model ----------------------------
(***************************************************************************)
(* Model of scripts/build-registry.js: the registry builder that searches  *)
(* GitHub for repositories carrying the audion-plugins topic, fetches and  *)
(* validates each plugin.json and writes registry/main/registry.json.      *)
(***************************************************************************)
EXTENDS Naturals, Sequences, FiniteSets, TLC

VARIABLES
    pc,          \* position of the script: see the actions below
    token,       \* process.env.GITHUB_TOKEN is set
    clock,       \* the wall clock new Date() reads
    requests,    \* every https.request issued so far, in order
    repos,       \* buildRegistry: const repos
    idx,         \* buildRegistry: position of the for..of loop in repos (1-based)
    manifest,    \* buildRegistry / validateManifest: the document at hand
    validation,  \* buildRegistry: const validation
    plugins,     \* buildRegistry: const plugins
    registry,    \* buildRegistry: const registry
    log,         \* the per-repository console.log lines
    stderr,      \* what the catch handler printed with console.error
    file,        \* content found at OUTPUT_PATH
    exitCode,    \* exit status the process ends with once pc = "exited"
    run,         \* which invocation of the script this is
    received,    \* responses the first invocation received, in order
    firstDoc,    \* the registry object the first invocation built
    prior        \* content of OUTPUT_PATH when this invocation started

vars == <<pc, token, clock, requests, repos, idx, manifest, validation, plugins,
          registry, log, stderr, file, exitCode, run, received, firstDoc, prior>>

-----------------------------------------------------------------------------
(* Decoded JSON values (what JSON.parse yields, plus undefined for a key    *)
(* that is not there).  val holds a scalar's text, elems an array's items.  *)

Undef == [kind |-> "undefined", val |-> "", elems |-> <<>>]
Null == [kind |-> "null", val |-> "", elems |-> <<>>]
Bool(b) == [kind |-> "boolean", val |-> IF b THEN "true" ELSE "false", elems |-> <<>>]
Num(s) == [kind |-> "number", val |-> s, elems |-> <<>>]
Str(s) == [kind |-> "string", val |-> s, elems |-> <<>>]
Arr(es) == [kind |-> "array", val |-> "", elems |-> es]
Obj == [kind |-> "object", val |-> "", elems |-> <<>>]

\* Truthiness that counts an empty array as false, as Python would.
TruthyNonEmpty(v) ==
    CASE v.kind \in {"undefined", "null"} -> FALSE
      [] v.kind = "boolean" -> v.val = "true"
      [] v.kind = "number" -> v.val # "0"
      [] v.kind = "string" -> v.val # ""
      [] v.kind = "array" -> Len(v.elems) > 0
      [] OTHER -> TRUE

\* JavaScript ToBoolean: undefined, null, false, 0 and "" are falsy; every
\* array and every object, empty or not, is truthy.
Truthy(v) ==
    CASE v.kind = "undefined" -> FALSE
      [] v.kind = "null" -> FALSE
      [] v.kind = "boolean" -> v.val = "true"
      [] v.kind = "number" -> v.val # "0"
      [] v.kind = "string" -> v.val # ""
      [] OTHER -> TRUE

\* JavaScript typeof: null and arrays are "object".
TypeOf(v) ==
    CASE v.kind \in {"null", "array", "object"} -> "object"
      [] OTHER -> v.kind

RECURSIVE Join(_)
Join(es) ==
    IF Len(es) = 0 THEN ""
    ELSE IF Len(es) = 1 THEN es[1]
    ELSE es[1] \o "," \o Join(Tail(es))

\* String conversion in a template literal `${v}`.
TemplateString(v) ==
    CASE v.kind = "undefined" -> "undefined"
      [] v.kind = "null" -> "null"
      [] v.kind = "array" -> Join(v.elems)
      [] v.kind = "object" -> "[object Object]"
      [] OTHER -> v.val

\* a || b without the fallback.
KeepFirst(a, b) == a

\* a || b
OrElse(a, b) == IF Truthy(a) THEN a ELSE b

\* Array.prototype.includes on an array of strings (strict equality).
Includes(list, v) == v.kind = "string" /\ \E k \in 1..Len(list) : list[k] = v.val

IsArray(v) == v.kind = "array"

-----------------------------------------------------------------------------
(* Documents: a decoded plugin.json.  fields[k] is doc[k] in JavaScript,    *)
(* undefined for a key the document does not carry, and for every key of a  *)
(* document that is an array or a scalar.                                   *)

\* VALID_TYPES with wasm left out.
OnlyJsTypes == <<"js">>

REQUIRED_FIELDS == <<"name", "version", "author", "type", "entry", "permissions">>
VALID_TYPES == <<"js", "wasm">>
VALID_CATEGORIES == <<"audio", "ui", "lyrics", "library", "utility">>

OptionalKeys == {"description", "category", "tags", "icon", "homepage",
                 "license", "ui_slots", "repo", "manifest_url"}

Keys == {REQUIRED_FIELDS[k] : k \in 1..Len(REQUIRED_FIELDS)} \cup OptionalKeys

NoFields == [k \in Keys |-> Undef]

AsDoc(v) == [kind |-> v.kind, val |-> v.val, elems |-> v.elems, fields |-> NoFields]

MkObj(f) ==
    [kind |-> "object", val |-> "", elems |-> <<>>,
     fields |-> [k \in Keys |-> IF k \in DOMAIN f THEN f[k] ELSE Undef]]

Get(doc, k) == doc.fields[k]

-----------------------------------------------------------------------------
(* validateManifest                                                         *)

Valid == [valid |-> TRUE, error |-> ""]
Invalid(msg) == [valid |-> FALSE, error |-> msg]
NoValidation == [valid |-> FALSE, error |-> "(none)"]

\* The required-field loop without its early return: the last missing field
\* wins.
RECURSIVE LastMissing(_, _)
LastMissing(doc, k) ==
    IF k > Len(REQUIRED_FIELDS) THEN 0
    ELSE IF LastMissing(doc, k + 1) # 0 THEN LastMissing(doc, k + 1)
    ELSE IF ~Truthy(Get(doc, REQUIRED_FIELDS[k])) THEN k
    ELSE 0

\* for (const field of REQUIRED_FIELDS) if (!manifest[field]) return ...
RECURSIVE FirstMissing(_, _)
FirstMissing(doc, k) ==
    IF k > Len(REQUIRED_FIELDS) THEN 0
    ELSE IF ~Truthy(Get(doc, REQUIRED_FIELDS[k])) THEN k
    ELSE FirstMissing(doc, k + 1)

\* validateManifest with the category check placed before the permissions check.
validateManifestCategoryFirst(doc) ==
    IF ~Truthy(doc) \/ TypeOf(doc) # "object" THEN Invalid("Invalid JSON")
    ELSE IF FirstMissing(doc, 1) # 0
        THEN Invalid("Missing required field: " \o REQUIRED_FIELDS[FirstMissing(doc, 1)])
    ELSE IF ~Includes(VALID_TYPES, Get(doc, "type"))
        THEN Invalid("Invalid type: " \o TemplateString(Get(doc, "type")))
    ELSE IF Truthy(Get(doc, "category")) /\ ~Includes(VALID_CATEGORIES, Get(doc, "category"))
        THEN Invalid("Invalid category: " \o TemplateString(Get(doc, "category")))
    ELSE IF ~IsArray(Get(doc, "permissions"))
        THEN Invalid("Permissions must be an array")
    ELSE Valid

\* validateManifest without the category check of lines 102-105.
validateManifestNoCategory(doc) ==
    IF ~Truthy(doc) \/ TypeOf(doc) # "object" THEN Invalid("Invalid JSON")
    ELSE IF FirstMissing(doc, 1) # 0
        THEN Invalid("Missing required field: " \o REQUIRED_FIELDS[FirstMissing(doc, 1)])
    ELSE IF ~Includes(VALID_TYPES, Get(doc, "type"))
        THEN Invalid("Invalid type: " \o TemplateString(Get(doc, "type")))
    ELSE IF ~IsArray(Get(doc, "permissions"))
        THEN Invalid("Permissions must be an array")
    ELSE Valid

\* validateManifest with the category test lacking its presence guard.
validateManifestCategoryRequired(doc) ==
    IF ~Truthy(doc) \/ TypeOf(doc) # "object" THEN Invalid("Invalid JSON")
    ELSE IF FirstMissing(doc, 1) # 0
        THEN Invalid("Missing required field: " \o REQUIRED_FIELDS[FirstMissing(doc, 1)])
    ELSE IF ~Includes(VALID_TYPES, Get(doc, "type"))
        THEN Invalid("Invalid type: " \o TemplateString(Get(doc, "type")))
    ELSE IF ~IsArray(Get(doc, "permissions"))
        THEN Invalid("Permissions must be an array")
    ELSE IF ~Includes(VALID_CATEGORIES, Get(doc, "category"))
        THEN Invalid("Invalid category: " \o TemplateString(Get(doc, "category")))
    ELSE Valid

\* validateManifest with the permissions check placed before the type check.
validateManifestPermissionsFirst(doc) ==
    IF ~Truthy(doc) \/ TypeOf(doc) # "object" THEN Invalid("Invalid JSON")
    ELSE IF FirstMissing(doc, 1) # 0
        THEN Invalid("Missing required field: " \o REQUIRED_FIELDS[FirstMissing(doc, 1)])
    ELSE IF ~IsArray(Get(doc, "permissions"))
        THEN Invalid("Permissions must be an array")
    ELSE IF ~Includes(VALID_TYPES, Get(doc, "type"))
        THEN Invalid("Invalid type: " \o TemplateString(Get(doc, "type")))
    ELSE IF Truthy(Get(doc, "category")) /\ ~Includes(VALID_CATEGORIES, Get(doc, "category"))
        THEN Invalid("Invalid category: " \o TemplateString(Get(doc, "category")))
    ELSE Valid

validateManifest(doc) ==
    IF ~Truthy(doc) \/ TypeOf(doc) # "object" THEN Invalid("Invalid JSON")
    ELSE IF FirstMissing(doc, 1) # 0
        THEN Invalid("Missing required field: " \o REQUIRED_FIELDS[FirstMissing(doc, 1)])
    ELSE IF ~Includes(VALID_TYPES, Get(doc, "type"))
        THEN Invalid("Invalid type: " \o TemplateString(Get(doc, "type")))
    ELSE IF ~IsArray(Get(doc, "permissions"))
        THEN Invalid("Permissions must be an array")
    ELSE IF Truthy(Get(doc, "category")) /\ ~Includes(VALID_CATEGORIES, Get(doc, "category"))
        THEN Invalid("Invalid category: " \o TemplateString(Get(doc, "category")))
    ELSE Valid

-----------------------------------------------------------------------------
(* The remote side: repositories the search can list and what the raw      *)
(* content host can answer.                                                 *)

MaxRepos == 2    \* longest listing the search returns
MaxRuns == 2     \* invocations of the script in one behaviour

GITHUB_API == "api.github.com"
RAW_HOST == "raw.githubusercontent.com"
SEARCH_PATH == "/search/repositories?q=topic:audion-plugins&sort=stars&order=desc&per_page=100"

\* Repository descriptors as the search API returns them; spdx is
\* repo.license?.spdx_id, undefined for a repository without a license.
RepoPool ==
    { [full_name |-> "acme/my-plugin", default_branch |-> "main",
       html_url |-> "https://github.com/acme/my-plugin",
       stargazers_count |-> 42, updated_at |-> "2024-03-01T00:00:00Z",
       spdx |-> Str("MIT")],
      [full_name |-> "bob/eq", default_branch |-> "master",
       html_url |-> "https://github.com/bob/eq",
       stargazers_count |-> 7, updated_at |-> "2024-02-01T00:00:00Z",
       spdx |-> Undef],
      [full_name |-> "eve/lyrics", default_branch |-> "dev",
       html_url |-> "https://github.com/eve/lyrics",
       stargazers_count |-> 7, updated_at |-> "2023-12-24T00:00:00Z",
       spdx |-> Str("GPL-3.0")] }

Injective(s) == \A a, b \in DOMAIN s : s[a] = s[b] => a = b

\* A listing names each repository once.
Listings == UNION { {s \in [1..n -> RepoPool] : Injective(s)} : n \in 0..MaxRepos }

MinimalManifest ==
    MkObj([name |-> Str("My Plugin"), version |-> Str("1.0.0"), author |-> Str("Acme"),
           type |-> Str("js"), entry |-> Str("index.js"),
           permissions |-> Arr(<<"player:read">>)])

FullManifest ==
    MkObj([name |-> Str("My Plugin"), version |-> Str("2.1.0"), author |-> Str("Bob"),
           type |-> Str("wasm"), entry |-> Str("plugin.wasm"),
           permissions |-> Arr(<<"player:read", "storage:local">>),
           description |-> Str("Equalizer"), category |-> Str("audio"),
           homepage |-> Str("https://eq.example"), license |-> Str("Apache-2.0"),
           repo |-> Str("https://elsewhere.example/repo"),
           manifest_url |-> Str("https://elsewhere.example/plugin.json")])

BadTypeManifest ==
    MkObj([name |-> Str("Py"), version |-> Str("0.1.0"), author |-> Str("Eve"),
           type |-> Str("python"), entry |-> Str("main.py"),
           permissions |-> Arr(<<"player:read">>)])

\* A valid manifest whose optional keys are there but empty.
BlankOptionalsManifest ==
    MkObj([name |-> Str("Blank"), version |-> Str("0.0.1"), author |-> Str("Eve"),
           type |-> Str("js"), entry |-> Str("index.js"),
           permissions |-> Arr(<<"ui:inject">>),
           description |-> Str(""), category |-> Str(""),
           homepage |-> Str(""), license |-> Str("")])

\* Bodies a 200 answer of the raw host can decode to (httpsGet keeps the raw
\* text when JSON.parse throws).
SampleDocs ==
    { MinimalManifest, FullManifest, BadTypeManifest, BlankOptionalsManifest,
      AsDoc(Null), AsDoc(Arr(<<"x">>)), AsDoc(Str("<html>")) }

TransportError == [kind |-> "error", status |-> 0, data |-> AsDoc(Undef)]
Answer(st, d) == [kind |-> "response", status |-> st, data |-> d]

FetchAnswers ==
    { Answer(200, d) : d \in SampleDocs }
        \cup { Answer(404, AsDoc(Str("404: Not Found"))), Answer(203, MinimalManifest) }
        \cup { TransportError }

\* Answers of the search endpoint: shape tells what the body decoded to.
Listing(st, sh, its) == [kind |-> "response", status |-> st, shape |-> sh, items |-> its]
SearchError == [kind |-> "error", status |-> 0, shape |-> "none", items |-> <<>>]

SearchAnswers ==
    { Listing(200, "listing", s) : s \in Listings }
        \cup { Listing(200, "noitems", <<>>), Listing(200, "null", <<>>),
               Listing(403, "noitems", <<>>), Listing(500, "text", <<>>) }
        \cup { SearchError }

-----------------------------------------------------------------------------
(* State of one invocation                                                  *)

SCHEMA_VERSION == "1.0.0"

NoRegistry == [version |-> "", updated_at |-> 0, plugins |-> <<>>]
Absent == [state |-> "absent", doc |-> NoRegistry]
Complete(doc) == [state |-> "complete", doc |-> doc]
Truncated == [state |-> "truncated", doc |-> NoRegistry]

\* What an earlier build left at OUTPUT_PATH.
PriorRegistry == [version |-> SCHEMA_VERSION, updated_at |-> 0, plugins |-> <<>>]

Fresh ==
    /\ pc = "start"
    /\ requests = <<>>
    /\ repos = <<>>
    /\ idx = 0
    /\ manifest = AsDoc(Undef)
    /\ validation = NoValidation
    /\ plugins = <<>>
    /\ registry = NoRegistry
    /\ log = <<>>
    /\ stderr = ""
    /\ exitCode = 0

Init ==
    /\ Fresh
    /\ token \in BOOLEAN
    /\ clock = 1
    /\ file \in {Absent, Complete(PriorRegistry)}
    /\ run = 1
    /\ received = <<>>
    /\ firstDoc = NoRegistry
    /\ prior = file

\* The answers the pending request can get: anything on the first invocation;
\* a second invocation is given the answers the first one received.
Offered(S) ==
    IF run = 1 \/ Len(requests) = 0 \/ Len(requests) > Len(received) THEN S
    ELSE {received[Len(requests)]} \cap S

Record(resp) == IF run = 1 THEN Append(received, resp) ELSE received

-----------------------------------------------------------------------------
(* searchRepos, fetchPluginManifest and the entry buildRegistry pushes      *)

RECURSIVE NatToString(_)
NatToString(n) ==
    IF n < 10
    THEN CASE n = 0 -> "0" [] n = 1 -> "1" [] n = 2 -> "2" [] n = 3 -> "3" [] n = 4 -> "4"
           [] n = 5 -> "5" [] n = 6 -> "6" [] n = 7 -> "7" [] n = 8 -> "8" [] OTHER -> "9"
    ELSE NatToString(n \div 10) \o NatToString(n % 10)

\* the message of the TypeError https.request throws for a header whose
\* value is undefined
INVALID_HEADER_VALUE == "Invalid value \"undefined\" for header \"Authorization\""

SearchRequest ==
    [hostname |-> GITHUB_API, path |-> SEARCH_PATH, authorization |-> token]

ManifestPath(repo) == "/" \o repo.full_name \o "/" \o repo.default_branch \o "/plugin.json"

ManifestRequest(repo) ==
    [hostname |-> RAW_HOST, path |-> ManifestPath(repo), authorization |-> FALSE]

Thrown(msg) == [ok |-> FALSE, items |-> <<>>, err |-> msg]
Returned(its) == [ok |-> TRUE, items |-> its, err |-> ""]

\* searchRepos without the status check of lines 54-56.
searchReposUnchecked(resp) ==
    IF resp.kind = "error" THEN Thrown("request error")
    ELSE IF resp.shape = "null" THEN Thrown("TypeError: Cannot read properties of null")
    ELSE IF resp.shape = "listing" THEN Returned(resp.items)
    ELSE Returned(<<>>)

\* What searchRepos does with the answer of its request: the rejection of
\* httpsGet and the errors thrown at lines 55 and 58 propagate to the caller.
searchRepos(resp) ==
    IF resp.kind = "error" THEN Thrown("request error")
    ELSE IF resp.status # 200 THEN Thrown("GitHub API error: " \o NatToString(resp.status))
    ELSE IF resp.shape = "null" THEN Thrown("TypeError: Cannot read properties of null")
    ELSE IF resp.shape = "listing" THEN Returned(resp.items)
    ELSE Returned(<<>>)

\* fetchPluginManifest without the status check of lines 73-75.
fetchPluginManifestUnchecked(resp) == resp.data

\* What fetchPluginManifest returns for an answer of the raw host.
fetchPluginManifest(resp) ==
    IF resp.status # 200 THEN AsDoc(Null) ELSE resp.data

ManifestUrl(repo) == "https://" \o RAW_HOST \o ManifestPath(repo)

\* The entry with lastUpdated taken from the build's clock instead of the
\* repository.
BuildEntryStamped(m, repo) ==
    [manifest |->
        [name |-> Get(m, "name"),
         version |-> Get(m, "version"),
         author |-> Get(m, "author"),
         description |-> OrElse(Get(m, "description"), Str("")),
         repo |-> Str(repo.html_url),
         manifest_url |-> Str(ManifestUrl(repo)),
         type |-> Get(m, "type"),
         entry |-> Get(m, "entry"),
         permissions |-> Get(m, "permissions"),
         ui_slots |-> Get(m, "ui_slots"),
         icon |-> Get(m, "icon"),
         homepage |-> OrElse(Get(m, "homepage"), Str(repo.html_url)),
         category |-> Get(m, "category"),
         tags |-> Get(m, "tags"),
         license |-> OrElse(Get(m, "license"), repo.spdx)],
     curated |-> FALSE,
     verified |-> FALSE,
     repo |-> repo.html_url,
     manifest_url |-> ManifestUrl(repo),
     stars |-> repo.stargazers_count,
     downloads |-> 0,
     lastUpdated |-> NatToString(clock)]

\* The entry with repo and manifest_url of the manifest sub-object taken from
\* the manifest when it supplies them.
BuildEntryKeepsSupplied(m, repo) ==
    [BuildEntryStamped(m, repo) EXCEPT
        !.lastUpdated = repo.updated_at,
        !.manifest.repo = OrElse(Get(m, "repo"), Str(repo.html_url)),
        !.manifest.manifest_url = OrElse(Get(m, "manifest_url"), Str(ManifestUrl(repo)))]

\* The entry with stars read from the first repository of the listing.
BuildEntryFirstRepoStars(m, repo) ==
    [BuildEntryStamped(m, repo) EXCEPT !.lastUpdated = repo.updated_at,
                                       !.stars = repos[1].stargazers_count]

BuildEntry(m, repo) ==
    [manifest |->
        [name |-> Get(m, "name"),
         version |-> Get(m, "version"),
         author |-> Get(m, "author"),
         description |-> OrElse(Get(m, "description"), Str("")),
         repo |-> Str(repo.html_url),
         manifest_url |-> Str(ManifestUrl(repo)),
         type |-> Get(m, "type"),
         entry |-> Get(m, "entry"),
         permissions |-> Get(m, "permissions"),
         ui_slots |-> Get(m, "ui_slots"),
         icon |-> Get(m, "icon"),
         homepage |-> OrElse(Get(m, "homepage"), Str(repo.html_url)),
         category |-> Get(m, "category"),
         tags |-> Get(m, "tags"),
         license |-> OrElse(Get(m, "license"), repo.spdx)],
     curated |-> FALSE,
     verified |-> FALSE,
     repo |-> repo.html_url,
     manifest_url |-> ManifestUrl(repo),
     stars |-> repo.stargazers_count,
     downloads |-> 0,
     lastUpdated |-> repo.updated_at]

\* plugins.unshift(entry)
Unshift(list, entry) == <<entry>> \o list

\* A push that drops an entry whose plugin name the list already holds.
PushUnlessNamed(list, entry) ==
    IF \E p \in 1..Len(list) : list[p].manifest.name = entry.manifest.name
    THEN list
    ELSE Append(list, entry)

\* A push that starts the list over.
PushOver(list, entry) == <<entry>>

\* plugins.push(entry)
Push(list, entry) == Append(list, entry)

Line(repo, kind, text) == [repo |-> repo.full_name, kind |-> kind, text |-> text]

-----------------------------------------------------------------------------
(* The steps of the script                                                  *)

\* The top-level catch without process.exit(1).
FatalLogOnly(msg) ==
    /\ pc' = "exited"
    /\ exitCode' = exitCode
    /\ stderr' = msg

\* buildRegistry().catch: console.error and process.exit(1)
Fatal(msg) ==
    /\ pc' = "exited"
    /\ exitCode' = 1
    /\ stderr' = msg

\* lines 39-52 and 22-35: searchRepos issues the search request.  Without
\* GITHUB_TOKEN the Authorization header of line 48 is undefined, for which
\* https.request throws ERR_HTTP_INVALID_HEADER_VALUE inside the promise
\* executor of httpsGet: the promise rejects before anything is sent and the
\* rejection reaches buildRegistry().catch.
SearchRepos ==
    /\ pc = "start"
    /\ IF token
       THEN /\ requests' = Append(requests, SearchRequest)
            /\ pc' = "discovering"
            /\ UNCHANGED <<exitCode, stderr>>
       ELSE /\ Fatal(INVALID_HEADER_VALUE)
            /\ requests' = requests
    /\ UNCHANGED <<token, clock, repos, idx, manifest, validation, plugins, registry,
                   log, file, run, received, firstDoc, prior>>

\* lines 52-60 and 111-112: the search request settles
SearchSettles(resp) ==
    /\ pc = "discovering"
    /\ received' = Record(resp)
    /\ IF searchRepos(resp).ok
       THEN /\ repos' = searchRepos(resp).items
            /\ idx' = 1
            /\ pc' = "loop"
            /\ UNCHANGED <<exitCode, stderr>>
       ELSE /\ Fatal(searchRepos(resp).err)
            /\ UNCHANGED <<repos, idx>>
    /\ UNCHANGED <<token, clock, requests, manifest, validation, plugins, registry,
                   log, file, run, firstDoc, prior>>

\* lines 114-118 and 62-71: the loop takes the next repository and requests
\* its plugin.json
FetchManifest ==
    /\ pc = "loop"
    /\ idx <= Len(repos)
    /\ requests' = Append(requests, ManifestRequest(repos[idx]))
    /\ pc' = "fetching"
    /\ UNCHANGED <<token, clock, repos, idx, manifest, validation, plugins, registry,
                   log, stderr, file, exitCode, run, received, firstDoc, prior>>

\* The loop without its try/catch: the rejection reaches buildRegistry().catch.
UncaughtItemError(msg) ==
    /\ Fatal(msg)
    /\ UNCHANGED <<log, idx>>

\* A catch that stays on the item, so that the loop requests it again.
CatchItemErrorRetry(msg) ==
    /\ log' = Append(log, Line(repos[idx], "error", "Error: " \o msg))
    /\ idx' = idx
    /\ pc' = "loop"
    /\ UNCHANGED <<exitCode, stderr>>

\* lines 162-164: the catch inside the loop
CatchItemError(msg) ==
    /\ log' = Append(log, Line(repos[idx], "error", "Error: " \o msg))
    /\ idx' = idx + 1
    /\ pc' = "loop"
    /\ UNCHANGED <<exitCode, stderr>>

\* The loop body without the validation.valid test of lines 127-130.
HandleManifestUnchecked(resp) ==
    /\ manifest' = fetchPluginManifest(resp)
    /\ IF ~Truthy(manifest')
       THEN /\ validation' = NoValidation
            /\ log' = Append(log, Line(repos[idx], "notfound", "No plugin.json found"))
            /\ plugins' = plugins
       ELSE /\ validation' = validateManifest(manifest')
            /\ log' = Append(log, Line(repos[idx], "valid",
                                  "Valid plugin: " \o TemplateString(Get(manifest', "name"))))
            /\ plugins' = Push(plugins, BuildEntry(manifest', repos[idx]))
    /\ idx' = idx + 1
    /\ pc' = "loop"
    /\ UNCHANGED <<exitCode, stderr>>

\* lines 71-77 and 120-160: the answer of the raw host is turned into a
\* manifest, checked and, when valid, pushed
HandleManifest(resp) ==
    /\ manifest' = fetchPluginManifest(resp)
    /\ IF ~Truthy(manifest')
       THEN /\ validation' = NoValidation
            /\ log' = Append(log, Line(repos[idx], "notfound", "No plugin.json found"))
            /\ plugins' = plugins
       ELSE /\ validation' = validateManifest(manifest')
            /\ IF ~validation'.valid
               THEN /\ log' = Append(log, Line(repos[idx], "invalid",
                                          "Invalid manifest: " \o validation'.error))
                    /\ plugins' = plugins
               ELSE /\ log' = Append(log, Line(repos[idx], "valid",
                                          "Valid plugin: " \o TemplateString(Get(manifest', "name"))))
                    /\ plugins' = Push(plugins, BuildEntry(manifest', repos[idx]))
    /\ idx' = idx + 1
    /\ pc' = "loop"
    /\ UNCHANGED <<exitCode, stderr>>

\* the manifest request settles: with an answer, or with the request's
\* 'error' event, which rejects httpsGet
ManifestSettles(resp) ==
    /\ pc = "fetching"
    /\ received' = Record(resp)
    /\ IF resp.kind = "error"
       THEN CatchItemError("request error") /\ UNCHANGED <<manifest, validation, plugins>>
       ELSE HandleManifest(resp)
    /\ UNCHANGED <<token, clock, requests, repos, registry, file, run, firstDoc, prior>>

\* The registry object built while items may remain.
BuildRegistryEarly ==
    /\ pc = "loop"
    /\ registry' = [version |-> SCHEMA_VERSION, updated_at |-> clock, plugins |-> plugins]
    /\ pc' = "built"
    /\ UNCHANGED <<token, clock, requests, repos, idx, manifest, validation, plugins,
                   log, stderr, file, exitCode, run, received, firstDoc, prior>>

\* lines 167-172: the loop is over, the registry object is built
BuildRegistryObject ==
    /\ pc = "loop"
    /\ idx > Len(repos)
    /\ registry' = [version |-> SCHEMA_VERSION, updated_at |-> clock, plugins |-> plugins]
    /\ pc' = "built"
    /\ UNCHANGED <<token, clock, requests, repos, idx, manifest, validation, plugins,
                   log, stderr, file, exitCode, run, received, firstDoc, prior>>

\* lines 174-181, first half: mkdirSync and writeFileSync opening OUTPUT_PATH
\* for writing, which truncates it; either can throw
WriteOpen(ok) ==
    /\ pc = "built"
    /\ IF ok
       THEN /\ file' = Truncated
            /\ pc' = "writing"
            /\ UNCHANGED <<exitCode, stderr>>
       ELSE /\ Fatal("EACCES: permission denied")
            /\ file' = file
    /\ UNCHANGED <<token, clock, requests, repos, idx, manifest, validation, plugins,
                   registry, log, run, received, firstDoc, prior>>

\* line 181, second half, to the end of the script: the bytes are written
\* and the process ends, or the write throws
WriteFinish(ok) ==
    /\ pc = "writing"
    /\ IF ok
       THEN /\ file' = Complete(registry)
            /\ pc' = "exited"
            /\ UNCHANGED <<exitCode, stderr>>
       ELSE /\ Fatal("ENOSPC: no space left on device")
            /\ file' = file
    /\ UNCHANGED <<token, clock, requests, repos, idx, manifest, validation, plugins,
                   registry, log, run, received, firstDoc, prior>>

\* the scheduled trigger invokes the script again, later
Rerun ==
    /\ pc = "exited"
    /\ run < MaxRuns
    /\ run' = run + 1
    /\ clock' = clock + 1
    /\ firstDoc' = registry
    /\ pc' = "start"
    /\ requests' = <<>>
    /\ repos' = <<>>
    /\ idx' = 0
    /\ manifest' = AsDoc(Undef)
    /\ validation' = NoValidation
    /\ plugins' = <<>>
    /\ registry' = NoRegistry
    /\ log' = <<>>
    /\ stderr' = ""
    /\ exitCode' = 0
    /\ prior' = file
    /\ UNCHANGED <<token, file, received>>

Next ==
    \/ SearchRepos
    \/ \E resp \in Offered(SearchAnswers) : SearchSettles(resp)
    \/ FetchManifest
    \/ \E resp \in Offered(FetchAnswers) : ManifestSettles(resp)
    \/ BuildRegistryObject
    \/ \E ok \in BOOLEAN : WriteOpen(ok)
    \/ \E ok \in BOOLEAN : WriteFinish(ok)

Spec == Init /\ [][Next]_vars

\* Two invocations, the second one given the answers of the first.
NextTwice == Next \/ Rerun

SpecTwice == Init /\ [][NextTwice]_vars

\* One build whose own steps are always taken once they can be: the script
\* runs on as soon as a promise settles.  Nothing is assumed of the remote
\* side: httpsGet settles only on the 'end' or 'error' event, and sets no
\* timeout that would produce one.
SpecFair ==
    /\ Init
    /\ [][Next]_vars
    /\ WF_vars(SearchRepos)
    /\ WF_vars(FetchManifest)
    /\ WF_vars(BuildRegistryObject)
    /\ WF_vars(\E ok \in BOOLEAN : WriteOpen(ok))
    /\ WF_vars(\E ok \in BOOLEAN : WriteFinish(ok))

-----------------------------------------------------------------------------
(* validateManifest on its own: every document of DocSpace is validated     *)
(* once.                                                                    *)

FalsyValues == {Null, Bool(FALSE), Num("0"), Str("")}

NameValues == {Undef, Str("My Plugin")} \cup FalsyValues
VersionValues == {Undef, Str(""), Num("0"), Str("1.0.0")}
AuthorValues == {Undef, Null, Str("Acme")}
TypeValues == {Undef, Str(""), Str("js"), Str("wasm"), Str("python"), Num("1"), Arr(<<"js">>)}
EntryValues == {Undef, Bool(FALSE), Str("index.js")}
PermissionsValues ==
    {Undef, Null, Num("0"), Arr(<<>>), Arr(<<"player:read">>), Str("player:read"), Obj}
CategoryValues == {Undef, Str(""), Str("audio"), Str("theme")}

Mappings ==
    { MkObj([name |-> n, version |-> v, author |-> a, type |-> t, entry |-> e,
             permissions |-> p, category |-> c]) :
        n \in NameValues, v \in VersionValues, a \in AuthorValues, t \in TypeValues,
        e \in EntryValues, p \in PermissionsValues, c \in CategoryValues }

NonMappings ==
    { AsDoc(v) : v \in {Null, Str(""), Str("<html>"), Num("0"), Num("5"), Bool(FALSE),
                        Bool(TRUE), Arr(<<>>), Arr(<<"x">>)} }

DocSpace == Mappings \cup NonMappings

InitV ==
    /\ pc = "validate"
    /\ manifest \in DocSpace
    /\ validation = NoValidation
    /\ token = FALSE
    /\ clock = 1
    /\ requests = <<>>
    /\ repos = <<>>
    /\ idx = 0
    /\ plugins = <<>>
    /\ registry = NoRegistry
    /\ log = <<>>
    /\ stderr = ""
    /\ file = Absent
    /\ exitCode = 0
    /\ run = 1
    /\ received = <<>>
    /\ firstDoc = NoRegistry
    /\ prior = Absent

Validate ==
    /\ pc = "validate"
    /\ validation' = validateManifest(manifest)
    /\ pc' = "validated"
    /\ UNCHANGED <<token, clock, requests, repos, idx, manifest, plugins, registry,
                   log, stderr, file, exitCode, run, received, firstDoc, prior>>

\* validateManifest called once more on the same document
Revalidate ==
    /\ pc = "validated"
    /\ validation' = validateManifest(manifest)
    /\ pc' = "revalidated"
    /\ UNCHANGED <<token, clock, requests, repos, idx, manifest, plugins, registry,
                   log, stderr, file, exitCode, run, received, firstDoc, prior>>

NextV == Validate \/ Revalidate

SpecV == InitV /\ [][NextV]_vars

-----------------------------------------------------------------------------
(* Properties of validateManifest, checked under SpecV                      *)

IsMapping(doc) == doc.kind = "object"
Field(doc, k) == Get(doc, REQUIRED_FIELDS[k])
Least(S) == CHOOSE k \in S : \A j \in S : k <= j

\* required keys the document does not carry
AbsentKeys(doc) == {k \in 1..Len(REQUIRED_FIELDS) : Field(doc, k) = Undef}
\* required keys that are absent or carry null, false, 0 or ""
MissingKeys(doc) ==
    {k \in 1..Len(REQUIRED_FIELDS) : Field(doc, k) = Undef \/ Field(doc, k) \in FalsyValues}

MissingField(f) == Invalid("Missing required field: " \o f)
InvalidType(v) == Invalid("Invalid type: " \o TemplateString(v))

\* C8 as stated: a mapping lacking one or more required keys is rejected with
\* MissingField naming the first ABSENT key of the fixed order.
C8_FirstAbsentKeyReported ==
    (pc = "validated" /\ IsMapping(manifest) /\ AbsentKeys(manifest) # {})
        => validation = MissingField(REQUIRED_FIELDS[Least(AbsentKeys(manifest))])

\* C8 amended: a mapping lacking one or more required keys is rejected with
\* MissingField naming the first key of the fixed order that is absent or
\* carries a falsy value (null, false, 0, ""); that is the first absent key
\* whenever no earlier key carries a falsy value.
C8_FirstMissingKeyReported ==
    (pc = "validated" /\ IsMapping(manifest) /\ AbsentKeys(manifest) # {})
        => /\ validation = MissingField(REQUIRED_FIELDS[Least(MissingKeys(manifest))])
           /\ (\A j \in 1..Len(REQUIRED_FIELDS) :
                  j < Least(AbsentKeys(manifest)) => Field(manifest, j) \notin FalsyValues)
                => validation = MissingField(REQUIRED_FIELDS[Least(AbsentKeys(manifest))])

\* Two keys are absent, version being the first of them, and version is named.
C8_Witness ==
    /\ pc = "validated"
    /\ IsMapping(manifest)
    /\ Cardinality(AbsentKeys(manifest)) >= 2
    /\ Least(AbsentKeys(manifest)) = 2
    /\ Field(manifest, 1) \notin FalsyValues
    /\ validation = MissingField("version")

\* every required key before k is present with a value that is neither falsy
\* nor an empty sequence
EarlierKeysFilled(doc, k) ==
    \A j \in 1..Len(REQUIRED_FIELDS) :
        j < k => j \notin MissingKeys(doc) /\ Field(doc, j) # Arr(<<>>)

\* C9 as stated: a required key present with an empty or falsy value ("", 0,
\* false, null, or an empty sequence) is treated as missing: the mapping is
\* rejected with MissingField naming that key (the first such key).
C9_EmptyOrFalsyIsMissing ==
    (pc = "validated" /\ IsMapping(manifest))
        => \A k \in 1..Len(REQUIRED_FIELDS) :
              (/\ Field(manifest, k) \in FalsyValues \cup {Arr(<<>>)}
               /\ EarlierKeysFilled(manifest, k))
                => validation = MissingField(REQUIRED_FIELDS[k])

\* C9 amended: a required key present with a falsy value ("", 0, false, null)
\* is treated as missing and named by MissingField when no earlier key is
\* missing; an empty permissions sequence is not falsy: a mapping carrying it
\* is never rejected for a missing permissions field, and is accepted when
\* its other required keys are filled, its type is valid and it has no category.
C9_FalsyIsMissing ==
    (pc = "validated" /\ IsMapping(manifest))
        => /\ \A k \in 1..Len(REQUIRED_FIELDS) :
                (Field(manifest, k) \in FalsyValues /\ EarlierKeysFilled(manifest, k))
                  => validation = MissingField(REQUIRED_FIELDS[k])
           /\ Get(manifest, "permissions") = Arr(<<>>)
                => /\ validation # MissingField("permissions")
                   /\ (/\ EarlierKeysFilled(manifest, Len(REQUIRED_FIELDS))
                       /\ Get(manifest, "type") \in {Str("js"), Str("wasm")}
                       /\ Get(manifest, "category") = Undef)
                        => validation = Valid

\* entry is present and false, the keys before it are filled, entry is named.
C9_Witness ==
    /\ pc = "validated"
    /\ IsMapping(manifest)
    /\ Get(manifest, "entry") = Bool(FALSE)
    /\ EarlierKeysFilled(manifest, 5)
    /\ validation = MissingField("entry")

TypeOutside(doc) ==
    /\ IsMapping(doc)
    /\ Get(doc, "type") # Undef
    /\ Get(doc, "type") \notin {Str("js"), Str("wasm")}

\* C10 as stated: a document whose type value is outside {js, wasm} is
\* rejected with InvalidType(value) whatever its other fields are.
C10_InvalidTypeRegardless ==
    (pc = "validated" /\ TypeOutside(manifest))
        => validation = InvalidType(Get(manifest, "type"))

\* C10 amended: a mapping whose six required keys are all present and truthy
\* and whose type value is outside {js, wasm} is rejected with
\* InvalidType(value), whatever its permissions and category are.
C10_InvalidTypeAfterRequired ==
    (pc = "validated" /\ TypeOutside(manifest) /\ MissingKeys(manifest) = {})
        => validation = InvalidType(Get(manifest, "type"))

\* type is python while permissions is no sequence and category is unknown.
C10_Witness ==
    /\ pc = "validated"
    /\ MissingKeys(manifest) = {}
    /\ Get(manifest, "type") = Str("python")
    /\ Get(manifest, "permissions") = Str("player:read")
    /\ Get(manifest, "category") = Str("theme")
    /\ validation = Invalid("Invalid type: python")

-----------------------------------------------------------------------------
(* Properties of one build, checked under Spec                              *)

Items == 1..Len(repos)
\* the answer the request for item i received (the search answer comes first)
Settled(i) == i + 1 <= Len(received)
ItemAnswer(i) == received[i + 1]
NotFoundAt(i) ==
    Settled(i) /\ ItemAnswer(i).kind = "response" /\ ItemAnswer(i).status # 200
TransportFailedAt(i) == Settled(i) /\ ItemAnswer(i).kind = "error"

EntriesOf(list, i) == {p \in 1..Len(list) : list[p].repo = repos[i].html_url}
WriteErrors == {"EACCES: permission denied", "ENOSPC: no space left on device"}
\* the file holds what this build wrote
Written == file = Complete(registry) /\ registry # NoRegistry

\* The build went through every item and reached the write: each item was
\* requested and got its log line, the registry object was built, and the
\* process ended with the artifact written and exit code 0, or with the
\* write's own error.
RanToTheWrite ==
    /\ Len(requests) = Len(repos) + 1
    /\ Len(log) = Len(repos)
    /\ registry # NoRegistry
    /\ registry.plugins = plugins
    /\ \/ exitCode = 0 /\ Written
       \/ exitCode = 1 /\ stderr \in WriteErrors

\* C1: an item whose manifest request is answered with a status other than
\* 200 contributes no entry and is logged as not found; the build is not
\* aborted by it: every later item is still requested and handled, and the
\* build ends at the write of the artifact (exit code 0 unless the write
\* itself throws).
C1_NotFoundIsSkipped ==
    \A i \in Items :
        NotFoundAt(i) =>
            /\ EntriesOf(plugins, i) = {}
            /\ Len(log) >= i
            /\ log[i].kind = "notfound"
            /\ pc = "exited" => RanToTheWrite

\* Two items, the first answered 404, the second valid: the artifact is
\* written with the second item's entry alone.
C1_Witness ==
    /\ pc = "exited"
    /\ Len(repos) = 2
    /\ NotFoundAt(1)
    /\ ItemAnswer(1).status = 404
    /\ log[2].kind = "valid"
    /\ exitCode = 0
    /\ Written
    /\ Len(file.doc.plugins) = 1
    /\ EntriesOf(file.doc.plugins, 2) = {1}

\* C2: an item whose manifest request fails at transport level (the request
\* emits 'error') contributes no entry and is logged as an error; the build
\* is not aborted by it: every later item is still processed and the build
\* ends with the artifact written and exit code 0, unless the write itself
\* throws.
C2_TransportFailureIsSkipped ==
    \A i \in Items :
        TransportFailedAt(i) =>
            /\ EntriesOf(plugins, i) = {}
            /\ Len(log) >= i
            /\ log[i] = Line(repos[i], "error", "Error: request error")
            /\ pc = "exited" => RanToTheWrite

\* Two items, the first one's request failing, the second valid: exit code 0
\* and the artifact holds the second item's entry.
C2_Witness ==
    /\ pc = "exited"
    /\ Len(repos) = 2
    /\ TransportFailedAt(1)
    /\ log[2].kind = "valid"
    /\ exitCode = 0
    /\ Written
    /\ EntriesOf(file.doc.plugins, 2) = {1}

DiscoveryRefused ==
    Len(received) >= 1 /\ received[1].kind = "response" /\ received[1].status # 200

\* C3: when the search is answered with a status other than 200 the build
\* aborts with exit code 1: the search request is the only request ever
\* issued and OUTPUT_PATH is left as the build found it.
C3_DiscoveryFailureAborts ==
    DiscoveryRefused =>
        /\ pc = "exited"
        /\ exitCode = 1
        /\ stderr = "GitHub API error: " \o NatToString(received[1].status)
        /\ requests = <<SearchRequest>>
        /\ registry = NoRegistry
        /\ file \in {Absent, Complete(PriorRegistry)}

\* The search is answered 403 while an earlier artifact exists.
C3_Witness ==
    /\ DiscoveryRefused
    /\ received[1].status = 403
    /\ pc = "exited"
    /\ exitCode = 1
    /\ file = Complete(PriorRegistry)

\* entry e comes from a discovered item whose request was answered 200 with a
\* document validateManifest accepts
FromAcceptedItem(e) ==
    \E i \in Items :
        /\ repos[i].html_url = e.repo
        /\ Settled(i)
        /\ ItemAnswer(i).kind = "response"
        /\ ItemAnswer(i).status = 200
        /\ validateManifest(ItemAnswer(i).data).valid
        /\ e = BuildEntry(ItemAnswer(i).data, repos[i])

AllFromAcceptedItems(list) == \A p \in 1..Len(list) : FromAcceptedItem(list[p])

\* C4: every entry of plugins, of the registry object and of the artifact
\* this build wrote comes from a discovered item whose fetched document
\* validateManifest accepted.
C4_OnlyAcceptedEntries ==
    /\ AllFromAcceptedItems(plugins)
    /\ AllFromAcceptedItems(registry.plugins)
    /\ (file.state = "complete" /\ file.doc # PriorRegistry)
        => AllFromAcceptedItems(file.doc.plugins)

\* A rejected item and an accepted one: the artifact holds one entry.
C4_Witness ==
    /\ pc = "exited"
    /\ Written
    /\ Len(repos) = 2
    /\ log[1].kind = "invalid"
    /\ log[2].kind = "valid"
    /\ Len(file.doc.plugins) = 1

\* The admission rule as the design states it: a mapping whose required keys
\* are present and filled, whose type is js or wasm, whose permissions is a
\* sequence and whose category, when present, is a known one.
Admissible(doc) ==
    /\ IsMapping(doc)
    /\ MissingKeys(doc) = {}
    /\ Get(doc, "type") \in {Str("js"), Str("wasm")}
    /\ Get(doc, "permissions").kind = "array"
    /\ Get(doc, "permissions") # Arr(<<>>)
    /\ \/ Get(doc, "category") = Undef
       \/ Get(doc, "category") \in
            {Str("audio"), Str("ui"), Str("lyrics"), Str("library"), Str("utility")}

\* C5: when a build completes, every discovered item whose request was
\* answered 200 with an admissible document has exactly one entry in the
\* written plugins sequence.
C5_Completeness ==
    (pc = "exited" /\ exitCode = 0) =>
        /\ Written
        /\ \A i \in Items :
              (/\ Settled(i)
               /\ ItemAnswer(i).kind = "response"
               /\ ItemAnswer(i).status = 200
               /\ Admissible(ItemAnswer(i).data))
                => Cardinality(EntriesOf(file.doc.plugins, i)) = 1

\* Two items answered with the two admissible manifests: two entries.
C5_Witness ==
    /\ pc = "exited"
    /\ exitCode = 0
    /\ Len(repos) = 2
    /\ ItemAnswer(1).data = MinimalManifest /\ ItemAnswer(1).status = 200
    /\ ItemAnswer(2).data = FullManifest /\ ItemAnswer(2).status = 200
    /\ Len(file.doc.plugins) = 2

PositionOf(url) == CHOOSE i \in Items : repos[i].html_url = url

InDiscoveryOrder(list) ==
    \A a, b \in 1..Len(list) :
        a < b => PositionOf(list[a].repo) < PositionOf(list[b].repo)

\* C6: the entries of plugins, and of the written artifact, appear in the
\* order of the items they come from in the search result.
C6_DiscoveryOrder ==
    /\ InDiscoveryOrder(plugins)
    /\ InDiscoveryOrder(registry.plugins)
    /\ Written => InDiscoveryOrder(file.doc.plugins)

\* Two accepted items, the less popular one listed first: two entries in
\* listing order.
C6_Witness ==
    /\ pc = "exited"
    /\ Written
    /\ Len(file.doc.plugins) = 2
    /\ repos[1].stargazers_count < repos[2].stargazers_count
    /\ file.doc.plugins[1].repo = repos[1].html_url
    /\ file.doc.plugins[2].repo = repos[2].html_url

-----------------------------------------------------------------------------
(* Two builds given the same answers, checked under SpecTwice               *)

\* C7: a second build that receives the search result and the per-item
\* answers the first one received builds a registry equal to the first one's
\* in version and plugins (updated_at aside); it builds one exactly when the
\* first one did.
C7_Deterministic ==
    /\ (run = 2 /\ registry # NoRegistry) =>
          /\ firstDoc # NoRegistry
          /\ registry.version = firstDoc.version
          /\ registry.plugins = firstDoc.plugins
    /\ (run = 2 /\ pc = "exited" /\ firstDoc # NoRegistry) => registry # NoRegistry

\* The second build has written two entries, the same as the first, with a
\* later updated_at.
C7_Witness ==
    /\ run = 2
    /\ pc = "exited"
    /\ Written
    /\ Len(registry.plugins) = 2
    /\ registry.plugins = firstDoc.plugins
    /\ registry.updated_at # firstDoc.updated_at

-----------------------------------------------------------------------------
(* Further properties of validateManifest, checked under SpecV              *)

Validated == pc \in {"validated", "revalidated"}

Malformed == Invalid("Invalid JSON")
PermissionsNotArray == Invalid("Permissions must be an array")
InvalidCategory(v) == Invalid("Invalid category: " \o TemplateString(v))

ValidTypeValues == {Str("js"), Str("wasm")}
ValidCategoryValues ==
    {Str("audio"), Str("ui"), Str("lyrics"), Str("library"), Str("utility")}

\* The five checks, each with the extent validateManifest gives it: check 1
\* lets every non-null value of typeof "object" through, check 2 counts a key
\* as missing when it is absent or falsy, check 5 looks at a truthy category
\* only.
Fails1(doc) == doc.kind \notin {"object", "array"}
Fails2(doc) == MissingKeys(doc) # {}
Fails3(doc) == Get(doc, "type") \notin ValidTypeValues
Fails4(doc) == Get(doc, "permissions").kind # "array"
Fails5(doc) ==
    /\ Get(doc, "category") # Undef
    /\ Get(doc, "category") \notin FalsyValues
    /\ Get(doc, "category") \notin ValidCategoryValues

C13_NonMappingIsMalformed ==
    (pc = "validated" /\ ~IsMapping(manifest)) => validation = Malformed

PassesChecks1to4(doc) ==
    IsMapping(doc) /\ ~Fails2(doc) /\ ~Fails3(doc) /\ ~Fails4(doc)

-----------------------------------------------------------------------------
(* Further properties of one build, checked under Spec                      *)

\* the document entry e was built from, and the repository it came from
SourceDoc(e) == ItemAnswer(PositionOf(e.repo)).data
SourceRepo(e) == repos[PositionOf(e.repo)]

Lacks(doc, k) == Get(doc, k) = Undef
LacksOrBlank(doc, k) == Get(doc, k) = Undef \/ Get(doc, k) \in FalsyValues

\* C15 as stated: description, homepage and license of an entry are the
\* manifest's own, and the empty string, the repository's html URL and the
\* repository's license where the manifest lacks the key.
C15_DefaultsWhenLacking ==
    \A p \in 1..Len(plugins) :
        LET e == plugins[p]
            d == SourceDoc(e)
            r == SourceRepo(e)
        IN /\ e.manifest.description =
                IF Lacks(d, "description") THEN Str("") ELSE Get(d, "description")
           /\ e.manifest.homepage =
                IF Lacks(d, "homepage") THEN Str(r.html_url) ELSE Get(d, "homepage")
           /\ e.manifest.license =
                IF Lacks(d, "license") THEN r.spdx ELSE Get(d, "license")

\* C15 amended: description, homepage and license of an entry are the empty
\* string, the repository's html URL and the repository's license where the
\* manifest lacks the key or carries a falsy value for it (null, false, 0,
\* ""); a manifest that supplies a truthy value keeps its own.
C15_DefaultsWhenLackingOrBlank ==
    \A p \in 1..Len(plugins) :
        LET e == plugins[p]
            d == SourceDoc(e)
            r == SourceRepo(e)
        IN /\ e.manifest.description =
                IF LacksOrBlank(d, "description") THEN Str("") ELSE Get(d, "description")
           /\ e.manifest.homepage =
                IF LacksOrBlank(d, "homepage") THEN Str(r.html_url) ELSE Get(d, "homepage")
           /\ e.manifest.license =
                IF LacksOrBlank(d, "license") THEN r.spdx ELSE Get(d, "license")

\* acme/my-plugin (license MIT) publishes the minimal manifest and a second
\* repository the full one: the first entry takes the three defaults, the
\* second keeps its own values.
C15_Witness ==
    /\ Len(plugins) = 2
    /\ SourceDoc(plugins[1]) = MinimalManifest
    /\ plugins[1].repo = "https://github.com/acme/my-plugin"
    /\ plugins[1].manifest.license = Str("MIT")
    /\ plugins[1].manifest.homepage = Str("https://github.com/acme/my-plugin")
    /\ plugins[1].manifest.description = Str("")
    /\ SourceDoc(plugins[2]) = FullManifest
    /\ plugins[2].manifest.license = Str("Apache-2.0")
    /\ plugins[2].manifest.homepage = Str("https://eq.example")
    /\ plugins[2].manifest.description = Str("Equalizer")

AutoDiscovered(e) ==
    /\ e.curated = FALSE
    /\ e.verified = FALSE
    /\ e.downloads = 0
    /\ \E i \in Items :
          /\ repos[i].html_url = e.repo
          /\ e.stars = repos[i].stargazers_count
          /\ e.lastUpdated = repos[i].updated_at

\* C16: every entry of plugins and of the written artifact has curated and
\* verified false, downloads 0, and the stars and lastUpdated of the listed
\* repository it comes from.
C16_EntryMetadata ==
    /\ \A p \in 1..Len(plugins) : AutoDiscovered(plugins[p])
    /\ Written => \A p \in 1..Len(file.doc.plugins) : AutoDiscovered(file.doc.plugins[p])

\* Two entries written, from repositories with 7 and 42 stars in that order.
C16_Witness ==
    /\ pc = "exited"
    /\ Written
    /\ Len(file.doc.plugins) = 2
    /\ file.doc.plugins[1].stars = 7
    /\ file.doc.plugins[2].stars = 42
    /\ file.doc.plugins[2].lastUpdated = "2024-03-01T00:00:00Z"

\* the search threw: the request could not be made, got no answer, got a
\* status other than 200, or got a body that decoded to null
DiscoveryFailed ==
    \/ ~token
    \/ /\ Len(received) >= 1
       /\ \/ received[1].kind = "error"
          \/ received[1].status # 200
          \/ received[1].shape = "null"
WriteFailed == registry # NoRegistry /\ ~Written

\* C17: the process exits non-zero exactly when the search failed or the
\* write of the artifact failed; with the search succeeding and the write
\* succeeding it exits 0 whatever the items produced, zero accepted plugins
\* included.
C17_ExitContract ==
    pc = "exited" =>
        /\ exitCode \in {0, 1}
        /\ exitCode # 0 <=> (DiscoveryFailed \/ WriteFailed)
        /\ (~DiscoveryFailed /\ Written) => exitCode = 0

\* Two items, one failing at transport level and one rejected: no plugin is
\* accepted, the artifact is written and the exit code is 0.
C17_Witness ==
    /\ pc = "exited"
    /\ Len(repos) = 2
    /\ log[1].kind = "error"
    /\ log[2].kind = "invalid"
    /\ Written
    /\ file.doc.plugins = <<>>
    /\ exitCode = 0

\* C18 as stated: at every point during and after a build a reader of
\* OUTPUT_PATH finds the complete previous document or the complete new one,
\* never a partially written or truncated file.
C18_ReaderSeesWholeDocument ==
    prior.state = "complete" =>
        \/ file = prior
        \/ registry # NoRegistry /\ file = Complete(registry)

\* C19 as stated: when the write of the artifact fails the build exits
\* non-zero with the error reported, and the artifact written before is
\* still at OUTPUT_PATH, unchanged.
C19_FailedWriteKeepsArtifact ==
    (pc = "exited" /\ WriteFailed) =>
        /\ exitCode = 1
        /\ stderr \in WriteErrors
        /\ prior.state = "complete" => file = prior

RequestsFor(i) == {k \in 1..Len(requests) : requests[k] = ManifestRequest(repos[i])}

\* C20 as stated: a transport-level failure of a manifest request is
\* retried, so an item is given up as failed only after its request has
\* been issued more than once.
C20_RetriedBeforeSkipped ==
    \A i \in Items :
        (Len(log) >= i /\ log[i].kind = "error") => Cardinality(RequestsFor(i)) >= 2

-----------------------------------------------------------------------------
(* Requests: termination and the bearer token                               *)

\* C21 as stated: every build terminates, at the end of the write or at a
\* fatal exit, even when the remote side never answers a request.
C21_AlwaysTerminates == <>(pc = "exited")

\* a request of this build that got an answer which was not a success
SomeAnswerFailed ==
    \E k \in 1..Len(received) :
        \/ received[k].kind = "error"
        \/ received[k].status # 200
        \/ k = 1 /\ received[k].shape # "listing"

\* C22 as stated: without GITHUB_TOKEN a build whose requests are all
\* answered successfully, and whose write does not fail, issues the search
\* and one request per item and ends with the artifact written, exit code 0.
C22_NoTokenStillBuilds ==
    (~token /\ pc = "exited" /\ ~SomeAnswerFailed /\ stderr \notin WriteErrors) =>
        /\ Len(requests) = Len(repos) + 1
        /\ Len(requests) >= 1
        /\ Written
        /\ exitCode = 0

\* C23 as stated: with GITHUB_TOKEN set, every request issued carries the
\* token: the search request and each manifest request.
C23_TokenOnEveryRequest ==
    token => \A k \in 1..Len(requests) : requests[k].authorization

-----------------------------------------------------------------------------
(* The item loop: what is fetched, in which order, and what is kept         *)

\* C24 as stated: an item is reported as not found exactly when its manifest
\* request was answered with a status other than 200; every 200 answer,
\* whatever its body decoded to, is reported as a validation outcome.
C24_NotFoundExactlyForNon200 ==
    \A i \in Items :
        (Settled(i) /\ Len(log) >= i /\ ItemAnswer(i).kind = "response") =>
            /\ log[i].kind = "notfound" <=> ItemAnswer(i).status # 200
            /\ ItemAnswer(i).status = 200 => log[i].kind \in {"valid", "invalid"}

\* item i was answered 200 with a document validateManifest accepts
AcceptedAt(i) ==
    /\ Settled(i)
    /\ ItemAnswer(i).kind = "response"
    /\ ItemAnswer(i).status = 200
    /\ validateManifest(ItemAnswer(i).data).valid

SameName(i, j) == Get(ItemAnswer(i).data, "name") = Get(ItemAnswer(j).data, "name")

\* list holds the entry of item i before the entry of item j
HoldsBoth(list, i, j) ==
    \E p, q \in 1..Len(list) :
        /\ p < q
        /\ list[p].repo = repos[i].html_url
        /\ list[p].manifest.name = Get(ItemAnswer(i).data, "name")
        /\ list[q].repo = repos[j].html_url
        /\ list[q].manifest.name = Get(ItemAnswer(j).data, "name")

\* C25: two discovered repositories whose accepted manifests carry the same
\* plugin name both have their entry in plugins, and in the written
\* artifact, in discovery order.
C25_DuplicatesPreserved ==
    \A i, j \in Items :
        (i < j /\ AcceptedAt(i) /\ AcceptedAt(j) /\ SameName(i, j)) =>
            /\ HoldsBoth(plugins, i, j)
            /\ Written => HoldsBoth(file.doc.plugins, i, j)

\* Two repositories publishing a plugin of the same name: two entries written.
C25_Witness ==
    /\ pc = "exited"
    /\ Written
    /\ Len(file.doc.plugins) = 2
    /\ file.doc.plugins[1].manifest.name = file.doc.plugins[2].manifest.name
    /\ file.doc.plugins[1].repo # file.doc.plugins[2].repo
    /\ file.doc.plugins[1].manifest.version # file.doc.plugins[2].manifest.version

\* C26: requests are issued one at a time: the search first, then one
\* manifest request per discovered item in listing order, each issued only
\* after the answers of all earlier requests were received and the earlier
\* items handled; a build that reaches the registry object has issued
\* exactly one manifest request per item.
C26_StrictlySequential ==
    /\ Len(requests) <= Len(received) + 1
    /\ Len(received) <= Len(requests)
    /\ Len(requests) <= Len(repos) + 1
    /\ Len(requests) >= 1 => requests[1].path = SEARCH_PATH
    /\ \A k \in 2..Len(requests) :
          /\ requests[k].hostname = RAW_HOST
          /\ requests[k].path = ManifestPath(repos[k - 1])
          /\ Len(log) >= k - 2
    /\ pc = "fetching" => Len(log) = Len(requests) - 2
    /\ registry # NoRegistry => Len(requests) = Len(repos) + 1

\* Two items: three requests in all, the third pending while the first two
\* are answered.
C26_Witness ==
    /\ pc = "fetching"
    /\ Len(repos) = 2
    /\ Len(requests) = 3
    /\ Len(received) = 2
    /\ requests[2].path = ManifestPath(repos[1])
    /\ requests[3].path = ManifestPath(repos[2])

\* every discovered item has been handled: the loop is past the last one and
\* each item has its log line
AllItemsProcessed == idx > Len(repos) /\ Len(log) = Len(repos)

\* C27: OUTPUT_PATH is touched only once every discovered item has been
\* handled; the document is written by one step, the last of the build,
\* after which nothing changes; what is written is the accumulated plugins
\* under the fixed schema version.
C27_WrittenOnceAfterAllItems ==
    /\ [](file # prior => AllItemsProcessed)
    /\ [](Written => /\ AllItemsProcessed
                     /\ file.doc.plugins = plugins
                     /\ file.doc.version = SCHEMA_VERSION)
    /\ [][file' # file => \/ pc = "built" /\ pc' = "writing" /\ file' = Truncated
                          \/ pc = "writing" /\ pc' = "exited"
                                /\ file' = Complete(registry)]_vars
    /\ [][pc # "exited"]_vars

\* Two items, one accepted and one not found, then the artifact written with
\* the one entry.
C27_Witness ==
    /\ pc = "exited"
    /\ Written
    /\ Len(repos) = 2
    /\ log[1].kind = "valid"
    /\ log[2].kind = "notfound"
    /\ Len(file.doc.plugins) = 1
    /\ file.doc.version = "1.0.0"

\* e carries the locations rebuilt from the listed repository r
Relocated(e, r) ==
    /\ e.repo = r.html_url
    /\ e.manifest.repo = Str(r.html_url)
    /\ e.manifest_url = "https://raw.githubusercontent.com/" \o r.full_name \o "/"
                            \o r.default_branch \o "/plugin.json"
    /\ e.manifest.manifest_url = Str(e.manifest_url)

\* the values the fetched manifests supply under repo and manifest_url
SuppliedLocations ==
    {Get(ItemAnswer(i).data, "repo") : i \in {j \in Items : Settled(j)}}
        \cup {Get(ItemAnswer(i).data, "manifest_url") : i \in {j \in Items : Settled(j)}}

FromListing(list) ==
    \A p \in 1..Len(list) :
        /\ \E i \in Items : AcceptedAt(i) /\ Relocated(list[p], repos[i])
        /\ list[p].manifest.repo \notin SuppliedLocations
        /\ list[p].manifest.manifest_url \notin SuppliedLocations

\* C28: in every entry of plugins and of the written artifact, manifest_url
\* (top level and inside manifest) is the raw-host URL rebuilt from the
\* listed repository's full name and default branch, and both repo fields
\* are its html URL; no repo or manifest_url value supplied by a fetched
\* manifest appears in them.
C28_LocationsReconstructed ==
    /\ FromListing(plugins)
    /\ Written => FromListing(file.doc.plugins)

\* An accepted manifest that supplies its own repo and manifest_url.
C28_Witness ==
    /\ pc = "exited"
    /\ Written
    /\ Len(file.doc.plugins) = 1
    /\ Get(ItemAnswer(1).data, "repo") = Str("https://elsewhere.example/repo")
    /\ Get(ItemAnswer(1).data, "manifest_url") = Str("https://elsewhere.example/plugin.json")
    /\ file.doc.plugins[1].manifest.repo = Str(repos[1].html_url)
    /\ repos[1].default_branch = "dev"

\* C29: a step of the item loop leaves plugins as it is (not found, request
\* error, rejection) or appends one entry at its end (acceptance); entries
\* already there are neither changed nor removed, and plugins never holds
\* more entries than items were handled.
C29_AppendOnly ==
    /\ [](Len(plugins) <= Len(log) /\ Len(log) <= Len(repos))
    /\ [][\/ plugins' = plugins
          \/ /\ pc = "fetching"
             /\ Len(plugins') = Len(plugins) + 1
             /\ SubSeq(plugins', 1, Len(plugins)) = plugins
             /\ Len(log') = Len(log) + 1
             /\ log'[Len(log')].kind = "valid"]_vars
    /\ [][(pc = "fetching" /\ Len(log') = Len(log) + 1
                /\ log'[Len(log')].kind # "valid") => plugins' = plugins]_vars
    /\ [][(pc = "fetching" /\ Len(log') = Len(log) + 1
                /\ log'[Len(log')].kind = "valid") => Len(plugins') = Len(plugins) + 1]_vars

\* The first item was accepted and the second rejected: one entry after two
\* items.
C29_Witness ==
    /\ pc = "loop"
    /\ Len(log) = 2
    /\ log[1].kind = "valid"
    /\ log[2].kind = "invalid"
    /\ Len(plugins) = 1
    /\ plugins[1].repo = repos[1].html_url

=============================================================================
